---- MODULE Spec2Model ----
(***************************************************************************)
(* Model of tools/assign_nouveau_groupe.py: the GroupAllocator class and   *)
(* the main() run that drives it over the rows of data_source.txt.         *)
(***************************************************************************)
EXTENDS Integers, Sequences, FiniteSets, TLC

VARIABLES
    group_counts,          \* GroupAllocator.group_counts: group -> occupancy
    group_source_groupes,  \* GroupAllocator.group_source_groupes: group -> label -> count
    group_metiers,         \* GroupAllocator.group_metiers: group -> label -> count
    data_source,           \* read_data_source: the lines of data_source.txt read so far,
                           \* each the list of its tab-separated fields (<<>> in the
                           \* runs that are given their records directly)
    lines,                 \* main: the records of data_source.txt loaded so far, as read
    rows,                  \* main: the records processed so far, NOUVEAU GROUPE filled in
    pc,                    \* main: "loop" (allocating), "exit" (sys.exit(1)) or "done"
    data_file,             \* main: what write_data_source wrote, if it ran
    report_file,           \* main: what generate_validation_report wrote, if it ran
    pending,               \* a second run: the records it has still to process
    previous               \* a second run: the rows and allocator the first run ended with

allocator == <<group_counts, group_source_groupes, group_metiers>>

run == <<data_source, lines, rows, pc, data_file, report_file>>

rerun == <<pending, previous>>

vars == <<group_counts, group_source_groupes, group_metiers, data_source, lines, rows,
          pc, data_file, report_file, pending, previous>>

----------------------------------------------------------------------------
(* GroupAllocator.__init__: the fixed tables.                              *)

Groups == 1..23

capacities == [g \in Groups |-> IF g <= 4 THEN 8 ELSE IF g <= 22 THEN 7 ELSE 6]

p1_groups == {1, 2, 3, 4, 17, 18, 19, 20, 21, 22, 23}

p2_groups == {1, 2, 3, 4, 5, 6, 7, 8, 9, 10, 11, 12, 13, 14, 15, 16}

stage_forbidden == {1, 2, 3, 4}

\* The value allocate_student returns when no group is possible (Python None).
None == 0

----------------------------------------------------------------------------
(* The values the columns of a row take in the model.                      *)

\* PERIODE column: the two recognized tags and one unrecognized tag.
Periodes == {"P1", "P2", "PX"}

\* Stage M1 hors IDF column: main compares it with 'oui'.
Stages == {"oui", "non"}

\* GROUPE (source group) and Metier columns: arbitrary labels.
SourceGroupes == {"A", "B"}

Metiers == {"M", "N"}

----------------------------------------------------------------------------
(* Python built-ins used by the allocator.                                 *)

\* sorted(S) for a set S of group numbers: its elements in ascending order.
Sorted(S) ==
    LET InS(g) == g \in S
    IN  SelectSeq([i \in 1..23 |-> i], InS)

\* str(n) for n >= 0: the decimal digits of n, as a sequence of characters.
Digits == <<"0", "1", "2", "3", "4", "5", "6", "7", "8", "9">>

RECURSIVE str(_)
str(n) == IF n < 10 THEN <<Digits[n + 1]>> ELSE str(n \div 10) \o <<Digits[(n % 10) + 1]>>

\* Python's tuple comparison a < b on 4-tuples of integers.
TupleLess(a, b) ==
    \/ a[1] < b[1]
    \/ a[1] = b[1] /\ a[2] < b[2]
    \/ a[1] = b[1] /\ a[2] = b[2] /\ a[3] < b[3]
    \/ a[1] = b[1] /\ a[2] = b[2] /\ a[3] = b[3] /\ a[4] < b[4]

\* min(seq, key=...) for a non-empty seq: one pass from the left that keeps the
\* best element so far and replaces it only by one whose key is strictly below.
\* key is the function from the elements of seq to their keys.
RECURSIVE MinFrom(_, _, _, _)
MinFrom(seq, key, i, best) ==
    IF i > Len(seq) THEN best
    ELSE MinFrom(seq, key, i + 1,
                 IF TupleLess(key[seq[i]], key[best]) THEN seq[i] ELSE best)

PyMin(seq, key) == MinFrom(seq, key, 2, seq[1])

----------------------------------------------------------------------------
(* GroupAllocator methods, as functions of the allocator's fields.         *)

\* Mutant of get_allowed_groups: a group at capacity still counts as available.
get_allowed_groups_at_capacity(counts, periode, stage_oui) ==
    IF periode \notin {"P1", "P2"} THEN <<>>
    ELSE LET byPeriod == IF periode = "P1" THEN p1_groups ELSE p2_groups
             allowed  == IF stage_oui THEN byPeriod \ stage_forbidden ELSE byPeriod
         IN  Sorted({g \in allowed : counts[g] <= capacities[g]})

\* Mutant of get_allowed_groups: the two period sets are swapped.
get_allowed_groups_swapped(counts, periode, stage_oui) ==
    IF periode \notin {"P1", "P2"} THEN <<>>
    ELSE LET byPeriod == IF periode = "P1" THEN p2_groups ELSE p1_groups
             allowed  == IF stage_oui THEN byPeriod \ stage_forbidden ELSE byPeriod
         IN  Sorted({g \in allowed : counts[g] < capacities[g]})

\* Mutant of get_allowed_groups: the forbidden groups are not removed.
get_allowed_groups_keep_forbidden(counts, periode, stage_oui) ==
    IF periode \notin {"P1", "P2"} THEN <<>>
    ELSE LET allowed == IF periode = "P1" THEN p1_groups ELSE p2_groups
         IN  Sorted({g \in allowed : counts[g] < capacities[g]})

\* Mutant of get_allowed_groups: a group with one place left counts as full.
get_allowed_groups_one_short(counts, periode, stage_oui) ==
    IF periode \notin {"P1", "P2"} THEN <<>>
    ELSE LET byPeriod == IF periode = "P1" THEN p1_groups ELSE p2_groups
             allowed  == IF stage_oui THEN byPeriod \ stage_forbidden ELSE byPeriod
         IN  Sorted({g \in allowed : counts[g] + 1 < capacities[g]})

\* get_allowed_groups(periode, stage_oui): the sorted list of the groups allowed
\* for the period, minus the forbidden ones when stage_oui, that have room left.
get_allowed_groups(counts, periode, stage_oui) ==
    IF periode \notin {"P1", "P2"} THEN <<>>
    ELSE LET byPeriod == IF periode = "P1" THEN p1_groups ELSE p2_groups
             allowed  == IF stage_oui THEN byPeriod \ stage_forbidden ELSE byPeriod
         IN  Sorted({g \in allowed : counts[g] < capacities[g]})

\* Mutant of score_group: the profession count is compared before the source count.
score_group_metier_first(counts, sources, metiers, group, source_groupe, metier) ==
    <<counts[group], metiers[group][metier], sources[group][source_groupe], group>>

\* Mutant of score_group: ties are broken by the highest group number.
score_group_highest_first(counts, sources, metiers, group, source_groupe, metier) ==
    <<counts[group], sources[group][source_groupe], metiers[group][metier], 0 - group>>

\* Mutant of score_group: only the group number counts.
score_group_number_only(counts, sources, metiers, group, source_groupe, metier) ==
    <<0, 0, 0, group>>

\* score_group(group, source_groupe, metier): lower is better.
score_group(counts, sources, metiers, group, source_groupe, metier) ==
    <<counts[group], sources[group][source_groupe], metiers[group][metier], group>>

\* Mutant of allocate_student: the profession histogram is not updated.
allocate_student_no_metier(counts, sources, metiers, periode, stage_oui, source_groupe, metier) ==
    LET allowed_groups == get_allowed_groups(counts, periode, stage_oui)
        key == [g \in Groups |->
                   score_group(counts, sources, metiers, g, source_groupe, metier)]
    IN  IF allowed_groups = <<>>
        THEN [group |-> None, group_counts |-> counts,
              group_source_groupes |-> sources, group_metiers |-> metiers]
        ELSE LET best_group == PyMin(allowed_groups, key)
             IN  [group |-> best_group,
                  group_counts |-> [counts EXCEPT ![best_group] = @ + 1],
                  group_source_groupes |->
                      [sources EXCEPT ![best_group][source_groupe] = @ + 1],
                  group_metiers |-> metiers]

\* allocate_student(periode, stage_oui, source_groupe, metier) on an allocator
\* with the given fields: the value it returns (None, or the best-scoring allowed
\* group) and the fields it leaves (that group's three counters incremented).
allocate_student(counts, sources, metiers, periode, stage_oui, source_groupe, metier) ==
    LET allowed_groups == get_allowed_groups(counts, periode, stage_oui)
        key == [g \in Groups |->
                   score_group(counts, sources, metiers, g, source_groupe, metier)]
    IN  IF allowed_groups = <<>>
        THEN [group |-> None, group_counts |-> counts,
              group_source_groupes |-> sources, group_metiers |-> metiers]
        ELSE LET best_group == PyMin(allowed_groups, key)
             IN  [group |-> best_group,
                  group_counts |-> [counts EXCEPT ![best_group] = @ + 1],
                  group_source_groupes |->
                      [sources EXCEPT ![best_group][source_groupe] = @ + 1],
                  group_metiers |-> [metiers EXCEPT ![best_group][metier] = @ + 1]]

\* validate_allocation(group, periode, stage_oui) on the fields counts.
validate_allocation(counts, group, periode, stage_oui) ==
    IF counts[group] > capacities[group] THEN FALSE
    ELSE IF periode = "P1" /\ group \notin p1_groups THEN FALSE
    ELSE IF periode = "P2" /\ group \notin p2_groups THEN FALSE
    ELSE IF stage_oui /\ group \in stage_forbidden THEN FALSE
    ELSE TRUE

----------------------------------------------------------------------------
(* The states of a run.                                                    *)

\* GroupAllocator(): empty occupancy and histograms.
GroupAllocator ==
    [group_counts |-> [g \in Groups |-> 0],
     group_source_groupes |-> [g \in Groups |-> [s \in SourceGroupes |-> 0]],
     group_metiers |-> [g \in Groups |-> [m \in Metiers |-> 0]]]

\* Mutant of main_allocator: the run goes on with the allocator it finds.
main_allocator_kept(old) == old

\* The allocator a run of main works on: a new one, whatever allocator (old) an
\* earlier run left behind.
main_allocator(old) == GroupAllocator

NotWritten == [written |-> FALSE, rows |-> <<>>]

NoReport == [written |-> FALSE, unassigned |-> <<>>]

NoRun == [ran |-> FALSE, lines |-> <<>>, rows |-> <<>>, allocator |-> GroupAllocator]

\* main, up to the allocation loop: a fresh allocator, nothing processed or written.
Init ==
    /\ group_counts = GroupAllocator.group_counts
    /\ group_source_groupes = GroupAllocator.group_source_groupes
    /\ group_metiers = GroupAllocator.group_metiers
    /\ data_source = <<>>
    /\ lines = <<>>
    /\ rows = <<>>
    /\ pc = "loop"
    /\ data_file = NotWritten
    /\ report_file = NoReport
    /\ pending = <<>>
    /\ previous = NoRun

----------------------------------------------------------------------------
(* The allocator object under any sequence of allocate_student calls.      *)

\* One call of allocate_student on the allocator.
AllocateStudent(periode, stage_oui, source_groupe, metier) ==
    LET done == allocate_student(group_counts, group_source_groupes, group_metiers,
                                 periode, stage_oui, source_groupe, metier)
    IN  /\ group_counts' = done.group_counts
        /\ group_source_groupes' = done.group_source_groupes
        /\ group_metiers' = done.group_metiers
        /\ UNCHANGED <<run, rerun>>

\* Students of any period and flag, all with the same source group and profession.
Next ==
    \E periode \in Periodes, stage \in Stages :
        AllocateStudent(periode, stage = "oui", "A", "M")

Spec == Init /\ [][Next]_vars

----------------------------------------------------------------------------
(* The allocator under short sequences of students that differ in source   *)
(* group and profession: flagged P1 students, who share groups 17..23.     *)

MaxMixed == 7

RECURSIVE SumUpTo(_, _)
SumUpTo(counts, g) == IF g = 0 THEN 0 ELSE counts[g] + SumUpTo(counts, g - 1)

\* The number of students placed so far.
Placed == SumUpTo(group_counts, 23)

NextMixed ==
    \E source_groupe \in SourceGroupes, metier \in Metiers :
        /\ Placed < MaxMixed
        /\ AllocateStudent("P1", TRUE, source_groupe, metier)

SpecMixed == Init /\ [][NextMixed]_vars

----------------------------------------------------------------------------
(* allocate_student as a function of the allocator's fields: the allocator *)
(* is handed over with some groups already filled to capacity (its fields   *)
(* are plain attributes their owner may set) and then takes a few students. *)

\* The groups that may be handed over full.
PreloadGroups == {1, 17}

MaxPreloadedPlaced == 18

\* An allocator whose groups in some subset of PreloadGroups hold as many students
\* (all of source group A and profession M) as their capacity, the others none.
InitPreloaded ==
    /\ \E full \in SUBSET PreloadGroups :
           /\ group_counts = [g \in Groups |-> IF g \in full THEN capacities[g] ELSE 0]
           /\ group_source_groupes =
                  [g \in Groups |-> [s \in SourceGroupes |->
                      IF g \in full /\ s = "A" THEN capacities[g] ELSE 0]]
           /\ group_metiers =
                  [g \in Groups |-> [m \in Metiers |->
                      IF g \in full /\ m = "M" THEN capacities[g] ELSE 0]]
    /\ data_source = <<>>
    /\ lines = <<>>
    /\ rows = <<>>
    /\ pc = "loop"
    /\ data_file = NotWritten
    /\ report_file = NoReport
    /\ pending = <<>>
    /\ previous = NoRun

NextPreloaded ==
    \E periode \in Periodes, stage \in Stages :
        /\ Placed < MaxPreloadedPlaced
        /\ AllocateStudent(periode, stage = "oui", "A", "M")

SpecPreloaded == InitPreloaded /\ [][NextPreloaded]_vars

----------------------------------------------------------------------------
(* main(): one run over the records of data_source.txt.                    *)

\* The record read_data_source builds for a well-formed line whose NOUVEAU GROUPE
\* field is absent or empty.
Row(line_num, metier, groupe, stage, periode) ==
    [line_num |-> line_num, metier |-> metier, choix_master |-> "CM",
     groupe |-> groupe, stage |-> stage, periode |-> periode, nouveau_groupe |-> <<>>]

\* Mutant of main_loop: a student no group can take ends the run like an error.
main_loop_exit_on_none(row) ==
    LET stage_oui == (row.stage = "oui")
        done == allocate_student(group_counts, group_source_groupes, group_metiers,
                                 row.periode, stage_oui, row.groupe, row.metier)
        group == done.group
    IN  /\ pc = "loop"
        /\ group_counts' = done.group_counts
        /\ group_source_groupes' = done.group_source_groupes
        /\ group_metiers' = done.group_metiers
        /\ rows' = Append(rows, [row EXCEPT !.nouveau_groupe =
                                    IF group # None THEN str(group) ELSE <<>>])
        /\ pc' = IF group = None \/ ~validate_allocation(done.group_counts, group,
                                                          row.periode, stage_oui)
                 THEN "exit" ELSE "loop"

\* Mutant of main_loop: a row that arrives with a destination keeps it and is not
\* allocated again.
main_loop_keep_existing(row) ==
    LET stage_oui == (row.stage = "oui")
        done == allocate_student(group_counts, group_source_groupes, group_metiers,
                                 row.periode, stage_oui, row.groupe, row.metier)
        group == done.group
    IN  /\ pc = "loop"
        /\ IF row.nouveau_groupe # <<>>
           THEN /\ UNCHANGED allocator
                /\ rows' = Append(rows, row)
                /\ pc' = "loop"
           ELSE /\ group_counts' = done.group_counts
                /\ group_source_groupes' = done.group_source_groupes
                /\ group_metiers' = done.group_metiers
                /\ rows' = Append(rows, [row EXCEPT !.nouveau_groupe =
                                            IF group # None THEN str(group) ELSE <<>>])
                /\ pc' = IF group # None /\ ~validate_allocation(done.group_counts, group,
                                                                  row.periode, stage_oui)
                         THEN "exit" ELSE "loop"

\* The body of main's loop for one row: allocate, fill in nouveau_groupe, validate.
\* A failed validation is sys.exit(1).
main_loop(row) ==
    LET stage_oui == (row.stage = "oui")
        done == allocate_student(group_counts, group_source_groupes, group_metiers,
                                 row.periode, stage_oui, row.groupe, row.metier)
        group == done.group
    IN  /\ pc = "loop"
        /\ group_counts' = done.group_counts
        /\ group_source_groupes' = done.group_source_groupes
        /\ group_metiers' = done.group_metiers
        /\ rows' = Append(rows, [row EXCEPT !.nouveau_groupe =
                                    IF group # None THEN str(group) ELSE <<>>])
        /\ pc' = IF group # None /\ ~validate_allocation(done.group_counts, group,
                                                          row.periode, stage_oui)
                 THEN "exit" ELSE "loop"

\* Mutant of write_data_source: the Metier and GROUPE fields change places.
write_data_source_swapped(rs) ==
    [written |-> TRUE,
     rows |-> [i \in 1..Len(rs) |->
                  <<rs[i].line_num, rs[i].groupe, rs[i].choix_master, rs[i].metier,
                    rs[i].stage, rs[i].periode, rs[i].nouveau_groupe>>]]

\* write_data_source(data_file, header, rows): every row, its seven fields in order.
write_data_source(rs) ==
    [written |-> TRUE,
     rows |-> [i \in 1..Len(rs) |->
                  <<rs[i].line_num, rs[i].metier, rs[i].choix_master, rs[i].groupe,
                    rs[i].stage, rs[i].periode, rs[i].nouveau_groupe>>]]

\* generate_validation_report, section 3: the rows whose nouveau_groupe is empty.
generate_validation_report(rs) ==
    LET unassigned(r) == r.nouveau_groupe = <<>>
    IN  [written |-> TRUE, unassigned |-> SelectSeq(rs, unassigned)]

\* main after the loop: the table and the report are written.
main_finish ==
    /\ pc = "loop"
    /\ pending = <<>>
    /\ data_file' = write_data_source(rows)
    /\ report_file' = generate_validation_report(rows)
    /\ pc' = "done"
    /\ UNCHANGED <<allocator, data_source, lines, rows, rerun>>

(* The tables of the runs checked: a block of identical students followed by a *)
(* few arbitrary ones, long enough for a block of P1 students to fill every     *)
(* group open to them (1..4 and 17..23 hold 80).                               *)

MaxRows == 82

MaxTail == 1

SameStudent(r, q) ==
    /\ r.metier = q.metier /\ r.groupe = q.groupe
    /\ r.stage = q.stage /\ r.periode = q.periode

\* Whether row may follow the records ls: all the records but the last MaxTail
\* are the same student as the first.
MayFollow(ls, row) ==
    LET table == Append(ls, row)
    IN  \A i \in 1..(Len(table) - MaxTail) : SameStudent(table[i], table[1])

\* The next record of the table is loaded and processed.
ReadRow(row) ==
    /\ Len(lines) < MaxRows
    /\ MayFollow(lines, row)
    /\ pending = <<>>
    /\ lines' = Append(lines, row)
    /\ main_loop(row)
    /\ UNCHANGED <<data_source, data_file, report_file, rerun>>

\* The students of these tables: source group A with profession M, or B with N.
NextMain ==
    \/ \E labels \in {<<"A", "M">>, <<"B", "N">>}, stage \in Stages, periode \in Periodes :
           ReadRow(Row(Len(lines) + 1, labels[2], labels[1], stage, periode))
    \/ main_finish

SpecMain == Init /\ [][NextMain]_vars

----------------------------------------------------------------------------
(* Two runs of main, the second on the records of the first in any order.  *)

MaxPairRows == 2

\* The first run loads and processes the next record of its table.
ReadFirst(row) ==
    /\ ~previous.ran
    /\ Len(lines) < MaxPairRows
    /\ lines' = Append(lines, row)
    /\ main_loop(row)
    /\ UNCHANGED <<data_source, data_file, report_file, rerun>>

\* main is run again, on the records of the first run reordered by order: a new
\* process, with its own allocator and nothing written yet.
RunAgain(order) ==
    /\ pc = "done"
    /\ ~previous.ran
    /\ previous' = [ran |-> TRUE, lines |-> lines, rows |-> rows,
                    allocator |-> [group_counts |-> group_counts,
                                   group_source_groupes |-> group_source_groupes,
                                   group_metiers |-> group_metiers]]
    /\ LET new == main_allocator([group_counts |-> group_counts,
                                  group_source_groupes |-> group_source_groupes,
                                  group_metiers |-> group_metiers])
       IN  /\ group_counts' = new.group_counts
           /\ group_source_groupes' = new.group_source_groupes
           /\ group_metiers' = new.group_metiers
    /\ pending' = [i \in 1..Len(lines) |-> lines[order[i]]]
    /\ lines' = <<>>
    /\ rows' = <<>>
    /\ pc' = "loop"
    /\ data_file' = NotWritten
    /\ report_file' = NoReport
    /\ UNCHANGED data_source

\* The second run loads and processes its next record.
ReadSecond ==
    /\ pending # <<>>
    /\ lines' = Append(lines, Head(pending))
    /\ pending' = Tail(pending)
    /\ main_loop(Head(pending))
    /\ UNCHANGED <<data_source, data_file, report_file, previous>>

NextPair ==
    \/ \E groupe \in SourceGroupes, stage \in Stages, periode \in {"P1", "P2"} :
           ReadFirst(Row(Len(lines) + 1, "M", groupe, stage, periode))
    \/ main_finish
    \/ \E order \in Permutations(1..Len(lines)) : Len(lines) > 0 /\ RunAgain(order)
    \/ ReadSecond

SpecPair == Init /\ [][NextPair]_vars

----------------------------------------------------------------------------
(* main() on the text of data_source.txt: the loader, the run, and a second *)
(* run on the same table with its NOUVEAU GROUPE column emptied.            *)

MaxFileLines == 3

\* read_data_source(filepath), the rows it returns for the lines after the header:
\* a line of at least six fields gives a row of its first six fields and of the
\* seventh as nouveau_groupe ('' when there is none); any other line is left out.
read_data_source(file) ==
    LET accepted(parts) == Len(parts) >= 6
        kept == SelectSeq(file, accepted)
    IN  [i \in 1..Len(kept) |->
            [line_num |-> kept[i][1], metier |-> kept[i][2], choix_master |-> kept[i][3],
             groupe |-> kept[i][4], stage |-> kept[i][5], periode |-> kept[i][6],
             nouveau_groupe |-> IF Len(kept[i]) > 6 THEN kept[i][7] ELSE <<>>]]

\* The students of these tables, as (Metier, GROUPE, Stage M1 hors IDF, PERIODE).
FileStudents ==
    {<<"M", "A", "oui", "P1">>, <<"N", "B", "non", "P2">>, <<"M", "B", "non", "PX">>}

\* What the NOUVEAU GROUPE field of a line holds: nothing, or a group number.
Destinations == {<<>>, <<"3">>}

\* The lines a table may hold at line_num: five to eight tab-separated fields, the
\* seventh a destination and the eighth a stray field.
FileLines(line_num) ==
    {SubSeq(<<line_num, s[1], "CM", s[2], s[3], s[4], dest, "X">>, 1, n) :
        s \in FileStudents, dest \in Destinations, n \in 5..8}

\* The next line of the file is read; if the loader keeps it, its row is processed.
LoadLine(parts) ==
    /\ ~previous.ran
    /\ pc = "loop"
    /\ Len(data_source) < MaxFileLines
    /\ data_source' = Append(data_source, parts)
    /\ lines' = read_data_source(data_source')
    /\ IF Len(lines') > Len(lines)
       THEN main_loop(lines'[Len(lines')])
       ELSE UNCHANGED <<allocator, rows, pc>>
    /\ UNCHANGED <<data_file, report_file, rerun>>

\* main is run again on the table of the first run with every NOUVEAU GROUPE field
\* emptied: a new process, with its own allocator and nothing written yet.
RunOnEmptied ==
    /\ pc = "done"
    /\ ~previous.ran
    /\ previous' = [ran |-> TRUE, lines |-> lines, rows |-> rows,
                    allocator |-> [group_counts |-> group_counts,
                                   group_source_groupes |-> group_source_groupes,
                                   group_metiers |-> group_metiers]]
    /\ LET new == main_allocator([group_counts |-> group_counts,
                                  group_source_groupes |-> group_source_groupes,
                                  group_metiers |-> group_metiers])
       IN  /\ group_counts' = new.group_counts
           /\ group_source_groupes' = new.group_source_groupes
           /\ group_metiers' = new.group_metiers
    /\ data_source' = [i \in 1..Len(lines) |->
                          <<lines[i].line_num, lines[i].metier, lines[i].choix_master,
                            lines[i].groupe, lines[i].stage, lines[i].periode, <<>>>>]
    /\ pending' = read_data_source(data_source')
    /\ lines' = <<>>
    /\ rows' = <<>>
    /\ pc' = "loop"
    /\ data_file' = NotWritten
    /\ report_file' = NoReport

NextLoad ==
    \/ \E parts \in FileLines(Len(data_source) + 1) : LoadLine(parts)
    \/ main_finish
    \/ RunOnEmptied
    \/ ReadSecond

SpecLoad == Init /\ [][NextLoad]_vars

----------------------------------------------------------------------------
(* The hard constraints, as the specification states them.                 *)

\* Capacity 8 for groups 1-4, 7 for groups 5-22, 6 for group 23.
Capacity(g) == IF g \in 1..4 THEN 8 ELSE IF g \in 5..22 THEN 7 ELSE 6

\* The groups open to a period: P1 {1,2,3,4,17..23}, P2 {1..16}, none otherwise.
PeriodSet(periode) ==
    IF periode = "P1" THEN (1..4) \cup (17..23)
    ELSE IF periode = "P2" THEN 1..16
    ELSE {}

\* The eligibility set: the period set, minus {1,2,3,4} for a flagged student.
EligibilitySet(periode, flag) ==
    IF flag THEN PeriodSet(periode) \ (1..4) ELSE PeriodSet(periode)

\* What allocate_student does for the next student in the current allocator state.
Outcome(periode, flag, source_groupe, metier) ==
    allocate_student(group_counts, group_source_groupes, group_metiers,
                     periode, flag, source_groupe, metier)

Full(g) == group_counts[g] = Capacity(g)

----------------------------------------------------------------------------
(* Claims on the allocator under any student sequence (Spec).              *)

\* C1: after every allocation step, occupancy[g] <= capacity[g] for every group g
\* of 1..23, with capacity 8 for groups 1-4, 7 for groups 5-22 and 6 for group 23.
C1_OccupancyWithinCapacity ==
    \A g \in Groups : group_counts[g] <= Capacity(g)

\* C1 witness: every group is filled to its capacity (8, 7 and 6 are all reached).
C1_Witness ==
    \A g \in Groups : Full(g)

\* C2: whichever student comes next, if allocate_student assigns it a group, the
\* group is in the allowed set of the student's period: {1,2,3,4,17..23} for P1 and
\* {1..16} for P2.
C2_DestinationInPeriodSet ==
    \A periode \in Periodes, flag \in BOOLEAN :
        LET group == Outcome(periode, flag, "A", "M").group
        IN  group # None =>
                /\ periode = "P1" => group \in {1, 2, 3, 4} \cup (17..23)
                /\ periode = "P2" => group \in 1..16

\* C2 witness: groups 1-4 already hold students, and students of both periods are
\* assigned outside them: the P1 student to a group of 17..23, the P2 student to a
\* group of 5..16.
C2_Witness ==
    /\ \A g \in 1..4 : group_counts[g] > 0
    /\ Outcome("P1", FALSE, "A", "M").group \in 17..23
    /\ Outcome("P2", FALSE, "A", "M").group \in 5..16

\* C3: a student whose internal-placement flag is true is never assigned to group
\* 1, 2, 3 or 4, whatever its period and the occupancy of the other groups.
C3_FlaggedNeverInForbidden ==
    \A periode \in Periodes :
        Outcome(periode, TRUE, "A", "M").group \notin {1, 2, 3, 4}

\* C3 witness: groups 17..23 are full while group 1 has room, and the flagged P1
\* student is left unassigned rather than placed in group 1.
C3_Witness ==
    /\ \A g \in 17..23 : Full(g)
    /\ group_counts[1] < Capacity(1)
    /\ Outcome("P1", TRUE, "A", "M").group = None

\* C4: the next student is left unassigned if and only if every group of its
\* eligibility set (empty for an unrecognized period) is already at capacity.
C4_UnassignedIffEligibleFull ==
    \A periode \in Periodes, flag \in BOOLEAN :
        Outcome(periode, flag, "A", "M").group = None
            <=> \A g \in EligibilitySet(periode, flag) : Full(g)

\* C4 witness: a flagged P2 student is refused because groups 5..16 are full, while
\* an unflagged P2 student is still assigned.
C4_Witness ==
    /\ Outcome("P2", TRUE, "A", "M").group = None
    /\ Outcome("P2", FALSE, "A", "M").group # None

\* C7: validate_allocation, called right after allocate_student returned a group,
\* with the student's period and flag and on the incremented state, returns true.
C7_ValidatorNeverFails ==
    \A periode \in Periodes, flag \in BOOLEAN :
        LET done == Outcome(periode, flag, "A", "M")
        IN  done.group # None =>
                validate_allocation(done.group_counts, done.group, periode, flag)

\* C7 witness: the allocation validated is the one that fills a group to capacity.
C7_Witness ==
    \E periode \in {"P1", "P2"}, flag \in BOOLEAN :
        LET done == Outcome(periode, flag, "A", "M")
        IN  /\ done.group # None
            /\ done.group_counts[done.group] = Capacity(done.group)

----------------------------------------------------------------------------
(* Claims on the scoring (SpecMixed).                                      *)

\* The eligible-and-available set of a student in the current state.
Available(periode, flag) ==
    {g \in EligibilitySet(periode, flag) : group_counts[g] < Capacity(g)}

\* g comes strictly before h in the lexicographic order of (occupancy, students of
\* g with the same source group, students of g with the same profession, identifier).
Before(g, h, source_groupe, metier) ==
    LET og == group_counts[g]
        oh == group_counts[h]
        sg == group_source_groupes[g][source_groupe]
        sh == group_source_groupes[h][source_groupe]
        mg == group_metiers[g][metier]
        mh == group_metiers[h][metier]
    IN  \/ og < oh
        \/ og = oh /\ sg < sh
        \/ og = oh /\ sg = sh /\ mg < mh
        \/ og = oh /\ sg = sh /\ mg = mh /\ g < h

\* C5: when the next student's eligible-and-available set is not empty, the group
\* chosen for it is the unique lexicographic minimum of (occupancy, same-source
\* count, same-profession count, identifier) over that set, on the counts left by
\* the students before it: it is in the set and strictly before every other group.
C5_ChosenIsLexicographicMinimum ==
    \A periode \in Periodes, flag \in BOOLEAN,
       source_groupe \in SourceGroupes, metier \in Metiers :
        LET available == Available(periode, flag)
            group == Outcome(periode, flag, source_groupe, metier).group
        IN  available # {} =>
                /\ group \in available
                /\ \A h \in available \ {group} : Before(group, h, source_groupe, metier)

\* C5 witness: groups 17..23 hold one student each; group 17 holds one of source A
\* (profession other than M) and group 18 one of profession M (source other than A);
\* the next flagged P1 student (A, M) goes to a group above 17 whose source-A count
\* is 0 although its profession-M count is 1: the source count decides first.
C5_Witness ==
    /\ \A g \in 17..23 : group_counts[g] = 1
    /\ group_source_groupes[17]["A"] = 1 /\ group_metiers[17]["M"] = 0
    /\ LET group == Outcome("P1", TRUE, "A", "M").group
       IN  /\ group > 17
           /\ group_source_groupes[group]["A"] = 0
           /\ group_metiers[group]["M"] = 1

----------------------------------------------------------------------------
(* Claims on a run of main (SpecMain).                                     *)

\* The row a step of the loop has just processed.
Processed == rows'[Len(rows')]

\* C9, the step: a student whose eligible-and-available set is empty gets an empty
\* destination, leaves every occupancy and histogram as it was and does not stop
\* the run; and the student after an unassigned one is assigned whenever its own
\* eligible-and-available set is not empty.
C9_Step ==
    Len(rows') = Len(rows) + 1 =>
        /\ Available(Processed.periode, Processed.stage = "oui") = {} =>
               /\ Processed.nouveau_groupe = <<>>
               /\ group_counts' = group_counts
               /\ group_source_groupes' = group_source_groupes
               /\ group_metiers' = group_metiers
               /\ pc' = "loop"
        /\ (/\ rows # <<>>
            /\ rows[Len(rows)].nouveau_groupe = <<>>
            /\ Available(Processed.periode, Processed.stage = "oui") # {}) =>
               Processed.nouveau_groupe # <<>>

\* C9, the report: every row left with an empty destination is in the report's
\* list of unassigned students.
C9_Report ==
    report_file.written =>
        \A i \in 1..Len(rows) :
            rows[i].nouveau_groupe = <<>> =>
                \E k \in 1..Len(report_file.unassigned) :
                    report_file.unassigned[k] = rows[i]

\* C9: an unassignable student is not an error: its destination is recorded as
\* empty, no occupancy or histogram changes in that step, the run continues with
\* the following students, which can still be assigned, and the student appears in
\* the report's unassigned list.
C9_UnassignableIsNotAnError ==
    [][C9_Step]_vars /\ []C9_Report

\* C9 witness: the run has ended and written its report; a flagged P1 student was
\* left unassigned because groups 17..23 were full, a later student was assigned,
\* and the report lists the unassigned one.
C9_Witness ==
    /\ pc = "done"
    /\ report_file.written
    /\ \A g \in 17..23 : Full(g)
    /\ \E i \in 1..Len(rows) :
           /\ rows[i].periode = "P1" /\ rows[i].stage = "oui"
           /\ rows[i].nouveau_groupe = <<>>
           /\ \E j \in (i + 1)..Len(rows) : rows[j].nouveau_groupe # <<>>
           /\ \E k \in 1..Len(report_file.unassigned) :
                  report_file.unassigned[k].line_num = rows[i].line_num

\* 1 for the entry that an allocation into group g increments, 0 for the others.
Plus(cond) == IF cond THEN 1 ELSE 0

\* C15, the step: when the row just processed, of source group s and profession
\* p, got the destination g, then occupancy[g], the entry for s of g's source
\* histogram and the entry for p of g's profession histogram are one more than
\* before, and every other counter of g and every counter of every other group is
\* as before; and in any step no counter is less than before.
C15_Step ==
    /\ (Len(rows') = Len(rows) + 1 /\ Processed.nouveau_groupe # <<>>) =>
           \E g \in Groups :
               /\ Processed.nouveau_groupe = str(g)
               /\ \A h \in Groups :
                      /\ group_counts'[h] = group_counts[h] + Plus(h = g)
                      /\ \A s \in SourceGroupes :
                             group_source_groupes'[h][s] = group_source_groupes[h][s]
                                 + Plus(h = g /\ s = Processed.groupe)
                      /\ \A p \in Metiers :
                             group_metiers'[h][p] = group_metiers[h][p]
                                 + Plus(h = g /\ p = Processed.metier)
    /\ \A h \in Groups :
           /\ group_counts'[h] >= group_counts[h]
           /\ \A s \in SourceGroupes : group_source_groupes'[h][s] >= group_source_groupes[h][s]
           /\ \A p \in Metiers : group_metiers'[h][p] >= group_metiers[h][p]

\* C15: a successful allocation of a student with source group s and profession p
\* into group g increases by exactly one occupancy[g], g's source-histogram entry
\* for s and g's profession-histogram entry for p, and changes no other counter;
\* no counter ever decreases along a run.
C15_AllocationIncrementsThreeCounters ==
    [][C15_Step]_vars

\* C15 witness: a student of source group B and profession N was placed in a
\* group that held students of source group A and profession M only: afterwards
\* the group has one B and one N, next to its A and M entries.
C15_Witness ==
    \E g \in Groups :
        /\ group_counts[g] >= 2
        /\ group_source_groupes[g]["B"] = 1 /\ group_metiers[g]["N"] = 1
        /\ group_source_groupes[g]["A"] = group_counts[g] - 1
        /\ group_metiers[g]["M"] = group_counts[g] - 1
        /\ rows # <<>> /\ rows[Len(rows)].nouveau_groupe = str(g)
        /\ rows[Len(rows)].groupe = "B"

\* The number of the rows rs[1..n] whose destination is group g.
RECURSIVE SentTo(_, _, _)
SentTo(rs, n, g) ==
    IF n = 0 THEN 0
    ELSE SentTo(rs, n - 1, g) + (IF rs[n].nouveau_groupe = str(g) THEN 1 ELSE 0)

\* The destinations that are P2-eligible groups.
P2Destinations == {str(g) : g \in 1..16}

\* Rows i and i + 1 are two P2, unflagged students of the same profession and
\* source group, and no row before them was sent to a P2-eligible group.
TwinsOnEmptyP2(i) ==
    /\ rows[i].periode = "P2" /\ rows[i].stage # "oui"
    /\ SameStudent(rows[i], rows[i + 1])
    /\ \A j \in 1..(i - 1) : rows[j].nouveau_groupe \notin P2Destinations

\* C17: when two students with identical profession and source group, both P2
\* and both unflagged, are processed consecutively starting with all P2-eligible
\* groups empty, both are assigned and the second to a different group than the
\* first, unless only one P2-eligible group had room when the second arrived.
C17_TwinsAreSeparated ==
    \A i \in 1..(Len(rows) - 1) :
        TwinsOnEmptyP2(i) =>
            \/ /\ rows[i].nouveau_groupe # <<>>
               /\ rows[i + 1].nouveau_groupe # <<>>
               /\ rows[i + 1].nouveau_groupe # rows[i].nouveau_groupe
            \/ Cardinality({g \in 1..16 : SentTo(rows, i, g) < Capacity(g)}) = 1

\* C17 witness: the first two rows of the table are such twins; the first went to
\* group 1 and the second to group 2.
C17_Witness ==
    /\ Len(rows) >= 2
    /\ TwinsOnEmptyP2(1)
    /\ rows[1].nouveau_groupe = <<"1">>
    /\ rows[2].nouveau_groupe = <<"2">>

\* The sum of a histogram over its labels.
RECURSIVE SumOver(_, _)
SumOver(histogram, labels) ==
    IF labels = {} THEN 0
    ELSE LET l == CHOOSE x \in labels : TRUE
         IN  histogram[l] + SumOver(histogram, labels \ {l})

\* C19: in every reachable state of a run and for every group g, the sum of g's
\* source-group histogram entries equals occupancy[g], the sum of g's profession
\* histogram entries equals occupancy[g], and the sum of occupancy over all groups
\* equals the number of students processed so far that received a non-empty
\* destination.
C19_HistogramsSumToOccupancy ==
    /\ \A g \in Groups :
           /\ SumOver(group_source_groupes[g], SourceGroupes) = group_counts[g]
           /\ SumOver(group_metiers[g], Metiers) = group_counts[g]
    /\ Placed = Cardinality({i \in 1..Len(rows) : rows[i].nouveau_groupe # <<>>})

\* C19 witness: groups 17..23 are full, at least one processed student was left
\* unassigned, and a student of source group B and profession N was placed after
\* students of source group A and profession M.
C19_Witness ==
    /\ \A g \in 17..23 : Full(g)
    /\ \E i \in 1..Len(rows) : rows[i].nouveau_groupe = <<>>
    /\ \E g \in Groups : group_source_groupes[g]["B"] = 1 /\ group_metiers[g]["N"] = 1
    /\ \E g \in Groups : group_source_groupes[g]["A"] > 0 /\ group_metiers[g]["M"] > 0

----------------------------------------------------------------------------
(* Claims on two runs (SpecPair).                                          *)

\* The second run has ended.
BothRan == previous.ran /\ pc = "done"

HardConstraints(rs) ==
    /\ \A i \in 1..Len(rs) :
           rs[i].nouveau_groupe # <<>> =>
               \E g \in PeriodSet(rs[i].periode) :
                   /\ rs[i].nouveau_groupe = str(g)
                   /\ rs[i].stage = "oui" => g \notin 1..4
    /\ \A g \in Groups :
           Cardinality({i \in 1..Len(rs) : rs[i].nouveau_groupe = str(g)}) <= Capacity(g)

\* C10: whatever the order in which a run takes the records (the first run in the
\* order of the table, the second in any permutation of it), the assignment it
\* builds satisfies the hard constraints (capacity, period set, flag exclusion) at
\* every step.
C10_PermutedRunIsValid ==
    HardConstraints(rows) /\ HardConstraints(previous.rows)

\* C10 witness: the second run took the records in another order and gave some
\* student a destination other than the one the first run gave it.
C10_Witness ==
    /\ BothRan
    /\ \E i, j \in 1..Len(rows) :
           /\ rows[i].line_num = previous.rows[j].line_num
           /\ rows[i].nouveau_groupe # previous.rows[j].nouveau_groupe

----------------------------------------------------------------------------
(* Claims on the validator and on the candidate set (Spec).                *)

\* C13, as claimed: for every group of 1..23, every period tag (P1, P2 or an
\* unrecognized tag) and every flag value, validate_allocation returns pass
\* exactly when occupancy[group] <= capacity[group], the group is in the allowed
\* set of the period (empty for an unrecognized tag), and the flag is false or the
\* group is not in {1,2,3,4}.
C13_ValidatorIsTheThreeChecks ==
    \A group \in Groups, periode \in Periodes, flag \in BOOLEAN :
        validate_allocation(group_counts, group, periode, flag)
            <=> /\ group_counts[group] <= Capacity(group)
                /\ group \in PeriodSet(periode)
                /\ ~flag \/ group \notin {1, 2, 3, 4}

\* The set E(period, flag) of the claim, case by case.
E(periode, flag) ==
    IF periode = "P1" /\ ~flag THEN (1..4) \cup (17..23)
    ELSE IF periode = "P1" /\ flag THEN 17..23
    ELSE IF periode = "P2" /\ ~flag THEN 1..16
    ELSE IF periode = "P2" /\ flag THEN 5..16
    ELSE {}

\* The elements of a sequence.
Range(seq) == {seq[i] : i \in 1..Len(seq)}

\* C14: in every allocator state, the candidate set computed for a student is
\* exactly {g in E(period, flag) : occupancy[g] < capacity[g]}, and a student with
\* an unrecognized period tag has no candidate and is left unassigned, the
\* allocator unchanged and no error raised.
C14_CandidateSet ==
    /\ \A periode \in Periodes, flag \in BOOLEAN :
           Range(get_allowed_groups(group_counts, periode, flag))
               = {g \in E(periode, flag) : group_counts[g] < Capacity(g)}
    /\ \A flag \in BOOLEAN :
           LET done == Outcome("PX", flag, "A", "M")
           IN  /\ get_allowed_groups(group_counts, "PX", flag) = <<>>
               /\ done.group = None
               /\ done.group_counts = group_counts
               /\ done.group_source_groupes = group_source_groupes
               /\ done.group_metiers = group_metiers

\* C14 witness: groups 1..4 and 17..23 are full and group 5 is not, so that the
\* candidates of an unflagged P2 student are fewer than E(P2, false) and the same as
\* those of a flagged one, while a P1 student has no candidate left.
C14_Witness ==
    /\ \A g \in 1..4 : Full(g)
    /\ ~Full(5)
    /\ Range(get_allowed_groups(group_counts, "P2", FALSE))
           = Range(get_allowed_groups(group_counts, "P2", TRUE))
    /\ get_allowed_groups(group_counts, "P2", FALSE) # <<>>
    /\ get_allowed_groups(group_counts, "P1", FALSE) = <<>>

\* The classes of groups that share an eligibility profile.
Classes == {1..4, 5..16, 17..23}

\* C20: in every reachable allocator state, within each class of groups that
\* share the same eligibility profile ({1,2,3,4}, {5..16} and {17..23}) the
\* occupancies of any two groups differ by at most 1.
C20_ClassesAreBalanced ==
    \A class \in Classes :
        \A g, h \in class : group_counts[g] - group_counts[h] <= 1

\* C20 witness: in each class two groups differ by exactly 1, in 17..23 because
\* group 23 is full at 6 while group 17 holds 7.
C20_Witness ==
    /\ group_counts[1] = group_counts[4] + 1
    /\ group_counts[5] = group_counts[16] + 1
    /\ group_counts[17] = 7 /\ group_counts[23] = 6

----------------------------------------------------------------------------
(* Claim on the choice among empty groups (SpecPreloaded).                 *)

\* The lowest number of a non-empty set of groups.
Lowest(S) == CHOOSE g \in S : \A h \in S : g <= h

\* C16: when every group of the next student's eligible-and-available set has
\* occupancy 0, the student is placed in the lowest-numbered group of that set; a
\* flagged P1 student arriving with all groups empty lands in group 17; and an
\* unflagged P1 student arriving when group 1 holds 8 students and groups 2, 3, 4,
\* 17..23 are empty lands in group 2.
C16_LowestEmptyGroup ==
    /\ \A periode \in Periodes, flag \in BOOLEAN,
          source_groupe \in SourceGroupes, metier \in Metiers :
           LET available == Available(periode, flag)
           IN  (available # {} /\ \A g \in available : group_counts[g] = 0) =>
                   Outcome(periode, flag, source_groupe, metier).group = Lowest(available)
    /\ (\A g \in Groups : group_counts[g] = 0) =>
           Outcome("P1", TRUE, "A", "M").group = 17
    /\ (group_counts[1] = 8 /\ \A g \in {2, 3, 4} \cup (17..23) : group_counts[g] = 0) =>
           Outcome("P1", FALSE, "A", "M").group = 2

\* C16 witness: group 1 holds 8 students, groups 2, 3, 4, 17..23 are empty, and the
\* unflagged P1 student lands in group 2 while the flagged one lands in group 17.
C16_Witness ==
    /\ group_counts[1] = 8
    /\ \A g \in {2, 3, 4} \cup (17..23) : group_counts[g] = 0
    /\ Outcome("P1", FALSE, "A", "M").group = 2
    /\ Outcome("P1", TRUE, "A", "M").group = 17

----------------------------------------------------------------------------
(* Claims on the loader and on a run over a table that already holds       *)
(* destinations (SpecLoad).                                                *)

\* The records rs with every destination emptied.
Emptied(rs) == [i \in 1..Len(rs) |-> [rs[i] EXCEPT !.nouveau_groupe = <<>>]]

\* C11: a run on a table whose destination fields are already populated is not
\* rejected and re-derives the assignment from scratch: when it has ended, and a
\* run on the same records in the same order with empty destinations has ended,
\* both produced the same rows and wrote the same table, and ended with the same
\* occupancy and histograms (no pre-existing destination was counted).
C11_PopulatedRunRederives ==
    (BothRan /\ lines = Emptied(previous.lines)) =>
        /\ rows = previous.rows
        /\ data_file = write_data_source(previous.rows)
        /\ group_counts = previous.allocator.group_counts
        /\ group_source_groupes = previous.allocator.group_source_groupes
        /\ group_metiers = previous.allocator.group_metiers

\* C11 witness: both runs have ended; the first table gave student i the
\* destination 3, and both runs gave that student another group.
C11_Witness ==
    /\ BothRan
    /\ lines = Emptied(previous.lines)
    /\ \E i \in 1..Len(rows) :
           /\ previous.lines[i].nouveau_groupe = <<"3">>
           /\ rows[i].nouveau_groupe \notin {<<>>, <<"3">>}
           /\ previous.rows[i].nouveau_groupe = rows[i].nouveau_groupe

\* C12: a completed run changes only the destination field of each loaded record:
\* the table written holds as many lines as records were loaded, in the same order,
\* each with the identifier, profession, secondary tag, source group, flag token
\* and period of its record as loaded, and with a destination that is empty or the
\* decimal identifier of a group; and each group is the destination of as many
\* lines as its occupancy (the destinations are the groups chosen).
C12_OnlyDestinationChanges ==
    (pc = "done" /\ data_file.written) =>
        /\ Len(data_file.rows) = Len(lines)
        /\ \A i \in 1..Len(lines) :
               LET out == data_file.rows[i]
               IN  /\ Len(out) = 7
                   /\ out[1] = lines[i].line_num
                   /\ out[2] = lines[i].metier
                   /\ out[3] = lines[i].choix_master
                   /\ out[4] = lines[i].groupe
                   /\ out[5] = lines[i].stage
                   /\ out[6] = lines[i].periode
                   /\ out[7] = <<>> \/ \E g \in Groups : out[7] = str(g)
        /\ \A g \in Groups :
               group_counts[g] =
                   Cardinality({i \in 1..Len(data_file.rows) : data_file.rows[i][7] = str(g)})

\* C12 witness: a first run has written a table of three lines: one whose record
\* arrived with destination 3 and left with the two-digit identifier 17, one whose
\* record arrived without a destination and got one, and one left empty.
C12_Witness ==
    /\ pc = "done" /\ data_file.written /\ ~previous.ran
    /\ Len(data_file.rows) = 3
    /\ \E i, j, k \in 1..3 :
           /\ lines[i].nouveau_groupe = <<"3">> /\ data_file.rows[i][7] = <<"1", "7">>
           /\ Len(data_source[j]) = 6 /\ data_file.rows[j][7] = <<"1">>
           /\ data_file.rows[k][7] = <<>>

\* C18, as claimed, for the step that reads a line: a line with a wrong field count (anything other than seven
\* fields, or six when the trailing destination is omitted) is skipped by the
\* loader and never reaches the allocator: no loaded or processed record carries
\* its identifier (it receives no destination) and the step that read it changed
\* no occupancy or histogram counter; a line of six fields is loaded, with an
\* empty destination on input.
C18_Step ==
    (~previous.ran /\ Len(data_source') = Len(data_source) + 1) =>
        LET parts == data_source'[Len(data_source')]
        IN  /\ Len(parts) \notin {6, 7} =>
                   /\ lines' = lines
                   /\ rows' = rows
                   /\ group_counts' = group_counts
                   /\ group_source_groupes' = group_source_groupes
                   /\ group_metiers' = group_metiers
            /\ Len(parts) = 6 =>
                   /\ Len(lines') = Len(lines) + 1
                   /\ lines'[Len(lines')].line_num = parts[1]
                   /\ lines'[Len(lines')].nouveau_groupe = <<>>

\* C18, over a run: every step that reads a line obeys the rule above.
C18_WrongFieldCountIsSkipped ==
    [][C18_Step]_vars

====
